---- MODULE Spec2Model ----
(***************************************************************************)
(* The search proxy of softr-pinecone-search-api: GET /search and          *)
(* GET /healthz behind the checkAuth middleware, the two embedding calls,  *)
(* the filter and payload construction and the index query.                *)
(*                                                                         *)
(* The repository holds four revisions of the same program; `variant`      *)
(* says which one is deployed:                                             *)
(*   "basic"  src/unnamed/part_000          (no auth, token mode, $gte)    *)
(*   "token"  src/unnamed/part_001:1-175    (auth, hybrid, token mode)     *)
(*   "closed" src/unnamed/part_001:177-388  (auth, hybrid, closed labels;  *)
(*            src/server.js:1-149 is the same handler with more logging)   *)
(*   "multi"  src/server.js:189-388         (as "closed", multi-format     *)
(*            date enumeration)                                            *)
(*                                                                         *)
(* A JavaScript string is a sequence of one-character strings; an object   *)
(* (req.query, req.headers, process.env, a filter, a JSON body) is a       *)
(* function whose DOMAIN is the set of keys that are present; a number is  *)
(* a record [nan, v].                                                      *)
(***************************************************************************)
EXTENDS Integers, Sequences, FiniteSets, TLC

VARIABLES variant, env, pc, req, loc, calls, res

vars == <<variant, env, pc, req, loc, calls, res>>

-----------------------------------------------------------------------------
(* Bounds of the model *)

\* longest token list of a type parameter enumerated exhaustively
MaxTokens == 2
\* how many of the required configuration values may be absent at once
MaxAbsent == 1

-----------------------------------------------------------------------------
(* JavaScript values *)

NaN == [nan |-> TRUE, v |-> 0]
Num(n) == [nan |-> FALSE, v |-> n]

\* x || y on numbers: NaN and 0 are falsy
NumOr(x, y) == IF x.nan \/ x.v = 0 THEN y ELSE x

\* Math.min(x, y): NaN if either is NaN
MathMin(x, y) == IF x.nan \/ y.nan THEN NaN ELSE IF x.v <= y.v THEN x ELSE y

\* v * alpha, both in tenths (fractional numbers are fixed-point, one decimal)
Times(x, a) == IF x.nan \/ a.nan THEN NaN ELSE Num((x.v * a.v) \div 10)

undefined == [t |-> "undefined"]
null == [t |-> "null"]

\* truthiness of a tagged JSON value: objects and arrays, even empty, are truthy
TruthyVal(x) == x.t \notin {"undefined", "null"}

\* truthiness of a string
Truthy(s) == s # <<>>

\* obj.k ?? d
Coalesce(obj, k, d) == IF k \in DOMAIN obj THEN obj[k] ELSE d

\* obj.k || d, for string values
OrElse(obj, k, d) == IF k \in DOMAIN obj /\ Truthy(obj[k]) THEN obj[k] ELSE d

-----------------------------------------------------------------------------
(* Strings *)

IsWS(c) == c \in {" ", "\t", "\n"}

RECURSIVE trimStart(_)
trimStart(s) == IF s # <<>> /\ IsWS(Head(s)) THEN trimStart(Tail(s)) ELSE s

RECURSIVE trimEnd(_)
trimEnd(s) == IF s # <<>> /\ IsWS(s[Len(s)]) THEN trimEnd(SubSeq(s, 1, Len(s) - 1)) ELSE s

\* String.prototype.trim
trim(s) == trimEnd(trimStart(s))

Upper == <<"A","B","C","D","E","F","G","H","I","J","K","L","M",
           "N","O","P","Q","R","S","T","U","V","W","X","Y","Z">>
Lower == <<"a","b","c","d","e","f","g","h","i","j","k","l","m",
           "n","o","p","q","r","s","t","u","v","w","x","y","z">>

LowerChar(c) ==
    IF \E i \in DOMAIN Upper : Upper[i] = c
    THEN Lower[CHOOSE i \in DOMAIN Upper : Upper[i] = c]
    ELSE c

\* String.prototype.toLowerCase
toLowerCase(s) == [i \in 1..Len(s) |-> LowerChar(s[i])]

Digits == <<"0","1","2","3","4","5","6","7","8","9">>
IsDigit(c) == \E i \in DOMAIN Digits : Digits[i] = c
DigitVal(c) == (CHOOSE i \in DOMAIN Digits : Digits[i] = c) - 1

\* the value of the longest prefix of digits of s, continuing from acc
RECURSIVE digitsValue(_, _)
digitsValue(s, acc) ==
    IF s # <<>> /\ IsDigit(Head(s))
    THEN digitsValue(Tail(s), acc * 10 + DigitVal(Head(s)))
    ELSE acc

\* parseInt(s, 10): leading whitespace skipped, an optional sign, then the
\* longest run of digits; NaN when there is no digit
parseInt(s) ==
    LET t == trimStart(s)
        signed == t # <<>> /\ Head(t) \in {"-", "+"}
        body == IF signed THEN Tail(t) ELSE t
    IN  IF body = <<>> \/ ~IsDigit(Head(body)) THEN NaN
        ELSE IF signed /\ Head(t) = "-" THEN Num(0 - digitsValue(body, 0))
        ELSE Num(digitsValue(body, 0))

RECURSIVE dropDigits(_)
dropDigits(s) == IF s # <<>> /\ IsDigit(Head(s)) THEN dropDigits(Tail(s)) ELSE s

\* parseFloat(s) in tenths: sign, integer digits, and the first
\* fractional digit (the inputs of the model carry at most one)
parseFloat(s) ==
    LET t == trimStart(s)
        signed == t # <<>> /\ Head(t) \in {"-", "+"}
        body == IF signed THEN Tail(t) ELSE t
        rest == dropDigits(body)
        hasInt == body # <<>> /\ IsDigit(Head(body))
        hasFrac == rest # <<>> /\ Head(rest) = "." /\ Len(rest) >= 2 /\ IsDigit(rest[2])
        mag == digitsValue(body, 0) * 10 + (IF hasFrac THEN DigitVal(rest[2]) ELSE 0)
    IN  IF ~hasInt /\ ~hasFrac THEN NaN
        ELSE IF signed /\ Head(t) = "-" THEN Num(0 - mag)
        ELSE Num(mag)

-----------------------------------------------------------------------------
(* String literals of the program *)

S_Bearer == <<"B","e","a","r","e","r"," ">>
S_true == <<"t","r","u","e">>
S_false == <<"f","a","l","s","e">>
S_10 == <<"1","0">>
S_0_8 == <<"0",".","8">>

S_undefined == <<"u","n","d","e","f","i","n","e","d">>
S_all == <<"a","l","l">>
S_essay == <<"e","s","s","a","y">>
S_essays == <<"e","s","s","a","y","s">>
S_podcast == <<"p","o","d","c","a","s","t">>
S_podcasts == <<"p","o","d","c","a","s","t","s">>
S_video == <<"v","i","d","e","o">>
S_videos == <<"v","i","d","e","o","s">>
S_AllContentTypes == <<"A","l","l"," ","C","o","n","t","e","n","t"," ","T","y","p","e","s">>
S_EssaysOnly == <<"E","s","s","a","y","s"," ","O","n","l","y">>
S_PodcastsVideosOnly == <<"P","o","d","c","a","s","t","s","/","V","i","d","e","o","s"," ","O","n","l","y">>

-----------------------------------------------------------------------------
(* Configuration: process.env, read once at startup *)

Variants == {"basic", "token", "closed", "multi"}

\* the revisions that install checkAuth and know the hybrid toggle
HasAuth(vr) == vr # "basic"

\* an environment variable inside a template literal: `${X}`
Tmpl(e, k) == IF k \in DOMAIN e THEN e[k] ELSE S_undefined

\* const { PINECONE_NAMESPACE = "", ENABLE_HYBRID = "false" } = process.env
PINECONE_NAMESPACE(e) == Coalesce(e, "PINECONE_NAMESPACE", <<>>)
ENABLE_HYBRID(e) == Coalesce(e, "ENABLE_HYBRID", S_false)

\* trimHost: u.replace(/\/+$/, ""), with "" for an absent u
RECURSIVE trimSlashes(_)
trimSlashes(u) == IF u # <<>> /\ u[Len(u)] = "/" THEN trimSlashes(SubSeq(u, 1, Len(u) - 1)) ELSE u

trimHost(e) == IF "PINECONE_HOST" \in DOMAIN e THEN trimSlashes(e["PINECONE_HOST"]) ELSE <<>>

-----------------------------------------------------------------------------
(* Dates.  An instant is counted in whole UTC days since 1970-01-01: the   *)
(* time of day never reaches a result (toISOString().slice(0, 10) and      *)
(* Date.UTC(y, m, d) both drop it).                                        *)

\* a Date holds a time value only within 100,000,000 days of the epoch
MaxTimeDays == 10000 * 10000
ValidTime(day) == (0 - MaxTimeDays) <= day /\ day <= MaxTimeDays

\* the calendar date [y, m, d] of a day number (proleptic Gregorian)
civil(day) ==
    LET z == day + 719468
        era == z \div 146097
        doe == z - era * 146097
        yoe == (doe - doe \div 1460 + doe \div 36524 - doe \div 146096) \div 365
        doy == doe - (365 * yoe + yoe \div 4 - yoe \div 100)
        mp == (5 * doy + 2) \div 153
        d == doy - (153 * mp + 2) \div 5 + 1
        m == IF mp < 10 THEN mp + 3 ELSE mp - 9
        y == yoe + era * 400 + (IF m <= 2 THEN 1 ELSE 0)
    IN  [y |-> y, m |-> m, d |-> d]

\* the day number of a calendar date
daysFromCivil(y0, m, d) ==
    LET y == IF m <= 2 THEN y0 - 1 ELSE y0
        era == y \div 400
        yoe == y - era * 400
        doy == (153 * (IF m > 2 THEN m - 3 ELSE m + 9) + 2) \div 5 + d - 1
        doe == yoe * 365 + yoe \div 4 - yoe \div 100 + doy
    IN  era * 146097 + doe - 719468

\* String(n) for n >= 0
RECURSIVE numToString(_)
numToString(n) == IF n < 10 THEN <<Digits[n + 1]>> ELSE Append(numToString(n \div 10), Digits[(n % 10) + 1])

\* String.prototype.padStart(w, "0")
RECURSIVE padStart(_, _)
padStart(s, w) == IF Len(s) >= w THEN s ELSE padStart(<<"0">> \o s, w)

S_NaN == <<"N","a","N">>

\* `${n}` for an integer n
numText(n) == IF n < 0 THEN <<"-">> \o numToString(0 - n) ELSE numToString(n)

\* Date.prototype.toISOString().slice(0, 10) of a valid day: YYYY-MM-DD, and
\* the first ten characters of the expanded +-YYYYYY-MM-DD form for a year
\* outside 0..9999
isoText(c) ==
    SubSeq((IF 0 <= c.y /\ c.y <= 9999
            THEN padStart(numToString(c.y), 4)
            ELSE <<(IF c.y < 0 THEN "-" ELSE "+")>>
                 \o padStart(numToString(IF c.y < 0 THEN 0 - c.y ELSE c.y), 6))
           \o <<"-">> \o padStart(numToString(c.m), 2)
           \o <<"-">> \o padStart(numToString(c.d), 2), 1, 10)

isoDate(day) == isoText(civil(day))

\* const ymd = (d) => new Date(d).toISOString().slice(0, 10), for a valid d
ymd(day) == isoDate(day)

AllDigits(s) == \A i \in DOMAIN s : IsDigit(s[i])

\* new Date(s + "T00:00:00Z").getTime() in days: the date-time forms
\* YYYY-MM-DD and +-YYYYYY-MM followed by the time; NaN for anything else
timeOfDate(y, m, d) ==
    IF m \in 1..12 /\ d \in 1..31 THEN Num(daysFromCivil(y, m, d)) ELSE NaN

parseYMD(s) ==
    IF Len(s) # 10 THEN NaN
    ELSE IF AllDigits(SubSeq(s, 1, 4)) /\ s[5] = "-" /\ AllDigits(SubSeq(s, 6, 7))
            /\ s[8] = "-" /\ AllDigits(SubSeq(s, 9, 10))
    THEN timeOfDate(digitsValue(SubSeq(s, 1, 4), 0), digitsValue(SubSeq(s, 6, 7), 0),
                    digitsValue(SubSeq(s, 9, 10), 0))
    ELSE IF s[1] \in {"-", "+"} /\ AllDigits(SubSeq(s, 2, 7)) /\ s[8] = "-"
            /\ AllDigits(SubSeq(s, 9, 10)) /\ ~(s[1] = "-" /\ digitsValue(SubSeq(s, 2, 7), 0) = 0)
    THEN timeOfDate((IF s[1] = "-" THEN 0 - 1 ELSE 1) * digitsValue(SubSeq(s, 2, 7), 0),
                    digitsValue(SubSeq(s, 9, 10), 0), 1)
    ELSE NaN

\* for (; t <= end; t += DAY_MS) out.push(ymd(t))
RECURSIVE ymdLoop(_, _)
ymdLoop(t, end) == IF t > end THEN <<>> ELSE <<ymd(t)>> \o ymdLoop(t + 1, end)

\* function ymdRange(fromYMD, toYMD)
ymdBetween(t, end) == IF t.nan \/ end.nan THEN <<>> ELSE ymdLoop(t.v, end.v)

ymdRange(fromYMD, toYMD) == ymdBetween(parseYMD(fromYMD), parseYMD(toYMD))

Range(s) == {s[i] : i \in DOMAIN s}

\* Set.prototype.add followed by Array.from: insertion order, no duplicate
SetAdd(s, x) == IF x \in Range(s) THEN s ELSE Append(s, x)

RECURSIVE SetAddAll(_, _)
SetAddAll(s, xs) == IF xs = <<>> THEN s ELSE SetAddAll(SetAdd(s, Head(xs)), Tail(xs))

\* const getMultiFormats = (dateObj) => [...]: the five spellings of one day
multiText(y, m, d, mm, dd) ==
    << y \o <<"-">> \o mm \o <<"-">> \o dd,
       mm \o <<"/">> \o dd \o <<"/">> \o y,
       m \o <<"/">> \o d \o <<"/">> \o y,
       m \o <<"/">> \o dd \o <<"/">> \o y,
       mm \o <<"/">> \o d \o <<"/">> \o y >>

multiOf(y, m, d) == multiText(y, m, d, padStart(m, 2), padStart(d, 2))

multiOfCivil(c) == multiOf(numText(c.y), numToString(c.m), numToString(c.d))

getMultiFormats(day) ==
    IF ValidTime(day) THEN multiOfCivil(civil(day)) ELSE multiOf(S_NaN, S_NaN, S_NaN)

\* while (currentTimestamp <= endTimestamp) { ...; currentTimestamp += DAY_MS }
RECURSIVE multiLoop(_, _, _)
multiLoop(cur, end, out) ==
    IF cur > end THEN out ELSE multiLoop(cur + 1, end, SetAddAll(out, getMultiFormats(cur)))

\* function getMultiDateRange(daysBack), with `now` the day of new Date()
getMultiDateRange(daysBack, now) == multiLoop(now - daysBack, now, <<>>)

-----------------------------------------------------------------------------
(* Query Builder: the parameters of /search *)

\* a deliberately wrong reading of the code: the query text is not trimmed
qOf_untrimmed(query) == Coalesce(query, "q", <<>>)

\* const q = String(req.query.q ?? "").trim(); part_000 uses (q || "")
qOf(query) == trim(Coalesce(query, "q", <<>>))

\* const alpha = parseFloat(req.query.alpha ?? "0.8")
alphaOf(query) == parseFloat(Coalesce(query, "alpha", S_0_8))

\* const exactPhrase = String(req.query.exact ?? "").trim()
exactPhraseOf(query) == trim(Coalesce(query, "exact", <<>>))

\* part_000: Math.min(parseInt(req.query.topK || "10", 10), 50)
\* others:   Math.min(parseInt(String(req.query.topK ?? "10"), 10) || 10, 100)
topKOf(vr, query) ==
    IF vr = "basic"
    THEN MathMin(parseInt(OrElse(query, "topK", S_10)), Num(50))
    ELSE MathMin(NumOr(parseInt(Coalesce(query, "topK", S_10)), Num(10)), Num(100))

\* parseInt(String(req.query.days ?? ""), 10); part_000 uses (days || "")
daysOf(query) == parseInt(Coalesce(query, "days", <<>>))

\* Number.isFinite(daysNum) && daysNum > 0
daysAccepted(n) == ~n.nan /\ n.v > 0

-----------------------------------------------------------------------------
(* Filter translator: content type *)

\* s.replace(/\//g, ",")
replaceSlashes(s) == [i \in 1..Len(s) |-> IF s[i] = "/" THEN "," ELSE s[i]]

\* s.split(",")
RECURSIVE splitFrom(_, _)
splitFrom(s, cur) ==
    IF s = <<>> THEN <<cur>>
    ELSE IF Head(s) = "," THEN <<cur>> \o splitFrom(Tail(s), <<>>)
    ELSE splitFrom(Tail(s), Append(cur, Head(s)))

split(s) == splitFrom(s, <<>>)

\* .map(s => s.trim().toLowerCase()).filter(Boolean)
RECURSIVE cleanTokens(_)
cleanTokens(ts) ==
    IF ts = <<>> THEN <<>>
    ELSE LET t == toLowerCase(trim(Head(ts)))
         IN  (IF Truthy(t) THEN <<t>> ELSE <<>>) \o cleanTokens(Tail(ts))

\* the token list of the type parameter
typeTokens(query) == cleanTokens(split(replaceSlashes(trim(Coalesce(query, "type", <<>>)))))

\* a deliberately wrong reading of the code: podcast and video no longer add the combined label
tokenLabels_single(vr, t) ==
    IF t = S_essay \/ (vr # "basic" /\ t = S_essays) THEN <<"Essay">>
    ELSE IF t = S_podcast \/ (vr # "basic" /\ t = S_podcasts) THEN <<"Podcast">>
    ELSE IF t = S_video \/ (vr # "basic" /\ t = S_videos) THEN <<"Video">>
    ELSE <<>>

\* the labels one token adds (the plural spellings only in part_001)
tokenLabels(vr, t) ==
    IF t = S_essay \/ (vr # "basic" /\ t = S_essays) THEN <<"Essay">>
    ELSE IF t = S_podcast \/ (vr # "basic" /\ t = S_podcasts) THEN <<"Podcast", "Podcast, Video">>
    ELSE IF t = S_video \/ (vr # "basic" /\ t = S_videos) THEN <<"Video", "Podcast, Video">>
    ELSE <<>>

\* for (const t of tokens) { ... allowedTypeLabels.add(...) }
RECURSIVE allowedTypeLabels(_, _, _)
allowedTypeLabels(vr, ts, out) ==
    IF ts = <<>> THEN out
    ELSE allowedTypeLabels(vr, Tail(ts), SetAddAll(out, tokenLabels(vr, Head(ts))))

\* token mode: the values of the $in predicate, <<>> when none is attached
tokenTypeValues(vr, query) ==
    LET ts == typeTokens(query)
    IN  IF S_all \in Range(ts) THEN <<>> ELSE allowedTypeLabels(vr, ts, <<>>)

\* a deliberately wrong reading of the code: two orderings are left out
EssayLabels_incomplete ==
    << "Essay", "Essay, Podcast", "Essay, Video",
       "Essay, Podcast, Video", "Essay, Video, Podcast",
       "Podcast, Essay", "Podcast, Essay, Video",
       "Video, Essay", "Video, Essay, Podcast" >>

\* filter.Type = { $in: [...] } of "Essays Only"
EssayLabels ==
    << "Essay", "Essay, Podcast", "Essay, Video",
       "Essay, Podcast, Video", "Essay, Video, Podcast",
       "Podcast, Essay", "Podcast, Essay, Video",
       "Podcast, Video, Essay", "Video, Essay",
       "Video, Essay, Podcast", "Video, Podcast, Essay" >>

\* {}
EmptyObj == [k \in {} |-> 0]

\* a deliberately wrong reading of the code: "Podcasts/Videos Only" excludes
\* every label that "Essays Only" admits
typeFilter_complement(vr, query) ==
    LET bubbleType == trim(Coalesce(query, "type", <<>>))
    IN  IF bubbleType = S_AllContentTypes THEN EmptyObj
        ELSE IF bubbleType = S_EssaysOnly THEN [Type |-> [op |-> "$in", vals |-> EssayLabels]]
        ELSE IF bubbleType = S_PodcastsVideosOnly
        THEN [Type |-> [op |-> "$nin", vals |-> EssayLabels \o <<"Essays">>]]
        ELSE EmptyObj

\* the content-type part of the filter
typeFilter(vr, query) ==
    IF vr \in {"basic", "token"}
    THEN LET vals == tokenTypeValues(vr, query)
         IN  IF vals = <<>> THEN EmptyObj
             ELSE IF vr = "basic" THEN [final_type |-> [op |-> "$in", vals |-> vals]]
             ELSE [Type |-> [op |-> "$in", vals |-> vals]]
    ELSE LET bubbleType == trim(Coalesce(query, "type", <<>>))
         IN  IF bubbleType = S_AllContentTypes THEN EmptyObj
             ELSE IF bubbleType = S_EssaysOnly THEN [Type |-> [op |-> "$in", vals |-> EssayLabels]]
             ELSE IF bubbleType = S_PodcastsVideosOnly
             THEN [Type |-> [op |-> "$nin", vals |-> <<"Essay", "Essays">>]]
             ELSE EmptyObj

-----------------------------------------------------------------------------
(* Filter translator: recency.  now1 and now2 are the two reads of        *)
(* Date.now() (part_000 and getMultiDateRange read the clock once).       *)

\* whether computing the date predicate throws: toISOString() of a time
\* value outside the range of Date is a RangeError; getMultiFormats uses
\* only the getUTC* getters, which return NaN instead
dateThrows(vr, query, now1) ==
    LET n == daysOf(query)
    IN  vr # "multi" /\ daysAccepted(n) /\ ~ValidTime(now1 - n.v)

\* the recency part of the filter, when it does not throw
dateFilter(vr, query, now1, now2) ==
    LET n == daysOf(query)
    IN  IF ~daysAccepted(n) THEN EmptyObj
        ELSE IF vr = "basic"
        THEN [date_of_publication |-> [op |-> "$gte", val |-> ymd(now1 - n.v)]]
        ELSE IF vr = "multi"
        THEN ("Date of Publication" :> [op |-> "$in", vals |-> getMultiDateRange(n.v, now1)])
        ELSE ("Date of Publication" :>
                [op |-> "$in", vals |-> ymdRange(ymd(now1 - n.v), ymd(now2))])

\* const filter = {}; ... the two predicates are independent fields
filterOf(vr, query, now1, now2) == typeFilter(vr, query) @@ dateFilter(vr, query, now1, now2)

-----------------------------------------------------------------------------
(* Collaborator answers and what the program makes of them *)

Thrown(e) == [threw |-> TRUE, error |-> e]
Value(x) == [threw |-> FALSE, value |-> x]

\* j.data[0].<field>: a TypeError unless j.data[0] is there; undefined when
\* the field is missing
firstDatum(j, field) ==
    IF "data" \notin DOMAIN j \/ j.data = <<>> THEN Thrown(<<"TypeError">>)
    ELSE IF field \in DOMAIN j.data[1] THEN Value(j.data[1][field])
    ELSE Value(undefined)

\* a deliberately wrong reading of the code: a failed dense call yields no
\* vector instead of an error
getDenseEmbedding_lenient(vr, ans) ==
    IF ans.kind = "reject" \/ ~ans.ok THEN Value(undefined)
    ELSE firstDatum(ans.json, "embedding")

\* getDenseEmbedding / embed, after the fetch: await r.json(); if (!r.ok)
\* throw ...; return j.data[0].embedding
getDenseEmbedding(vr, ans) ==
    IF ans.kind = "reject" THEN Thrown(<<"FetchError">>)
    ELSE IF ~ans.ok
    THEN Thrown(<<(IF vr = "basic" THEN "Error: OpenAI: " ELSE "Error: OpenAI Error: "), ans.status>>)
    ELSE firstDatum(ans.json, "embedding")

\* a deliberately wrong reading of the code: a failed sparse call degrades to "no sparse vector"
getSparseEmbedding_degrade(ans) ==
    IF ans.kind = "reject" \/ ~ans.ok THEN Value(null)
    ELSE firstDatum(ans.json, "sparse_values")

\* getSparseEmbedding, after the fetch
getSparseEmbedding(ans) ==
    IF ans.kind = "reject" THEN Thrown(<<"FetchError">>)
    ELSE IF ~ans.ok THEN Thrown(<<"Error: Pinecone Sparse Error: ", ans.status>>)
    ELSE firstDatum(ans.json, "sparse_values")

\* a deliberately wrong reading of the code: the feature toggle is not consulted
wantsSparse_untoggled(vr, e, exactPhrase) == HasAuth(vr) /\ Truthy(exactPhrase)

\* if (ENABLE_HYBRID === "true" && exactPhrase), and getSparseEmbedding's own
\* guard: if (!text || text.trim() === "") return null
wantsSparse(vr, e, exactPhrase) ==
    /\ HasAuth(vr)
    /\ ENABLE_HYBRID(e) = S_true
    /\ Truthy(exactPhrase)
    /\ Truthy(trim(exactPhrase))

\* one element of the response array
\*   part_000: { id, score, ...m.metadata }
\*   others:   { id, score, title: m.metadata.Title, ..., ...m.metadata }
\* a key whose value is undefined is not in the JSON sent
aliasOf(md, name, key) == IF key \in DOMAIN md THEN (name :> md[key]) ELSE EmptyObj

abstractOf(md) ==
    IF "AI Summary" \in DOMAIN md /\ md["AI Summary"] # ""
    THEN ("abstract" :> md["AI Summary"])
    ELSE aliasOf(md, "abstract", "Snippet")

mapMatch(vr, m) ==
    IF vr = "basic"
    THEN Value((IF "metadata" \in DOMAIN m THEN m.metadata ELSE EmptyObj)
               @@ [id |-> m.id, score |-> m.score])
    ELSE IF "metadata" \notin DOMAIN m THEN Thrown(<<"TypeError">>)
    ELSE LET md == m.metadata
         IN  Value(md
                   @@ aliasOf(md, "title", "Title")
                   @@ aliasOf(md, "author", "Author")
                   @@ aliasOf(md, "url", "URL")
                   @@ aliasOf(md, "publication", "Publication")
                   @@ aliasOf(md, "type", "Type")
                   @@ aliasOf(md, "date", "Date of Publication")
                   @@ aliasOf(md, "snippet", "Snippet")
                   @@ aliasOf(md, "ai_summary", "AI Summary")
                   @@ abstractOf(md)
                   @@ [id |-> m.id, score |-> m.score])

\* (j.matches ?? []).map(m => ...)
RECURSIVE mapMatches(_, _)
mapMatches(vr, ms) ==
    IF ms = <<>> THEN Value(<<>>)
    ELSE LET h == mapMatch(vr, Head(ms))
             t == mapMatches(vr, Tail(ms))
         IN  IF h.threw THEN h ELSE IF t.threw THEN t ELSE Value(<<h.value>> \o t.value)

\* the index query payload, as serialised (undefined values are dropped)
\*   vector: sparseVector ? denseVector.map(v => v * alpha) : denseVector
bodyOf(vr, e, l, filter) ==
    LET hybrid == HasAuth(vr) /\ TruthyVal(l.sparseVector)
        vector == IF hybrid
                  THEN [t |-> "array",
                        v |-> [i \in 1..Len(l.denseVector.v) |-> Times(l.denseVector.v[i], l.alpha)]]
                  ELSE l.denseVector
    IN  IF hybrid /\ l.denseVector = undefined THEN Thrown(<<"TypeError">>)
        ELSE Value((IF vector = undefined THEN EmptyObj ELSE [vector |-> vector])
                   @@ [topK |-> l.topK, includeMetadata |-> TRUE]
                   @@ (IF hybrid THEN [sparse_vector |-> l.sparseVector] ELSE EmptyObj)
                   @@ (IF Truthy(PINECONE_NAMESPACE(e))
                       THEN [namespace |-> PINECONE_NAMESPACE(e)] ELSE EmptyObj)
                   @@ (IF DOMAIN filter # {} THEN [filter |-> filter] ELSE EmptyObj))

-----------------------------------------------------------------------------
(* The inputs the model draws from *)

K_secret == <<"s","3">>
K_other == <<"x">>
K_openai == <<"s","k">>
K_pinecone == <<"p","c">>
K_host == <<"h","t","t","p","s",":","/","/","i","x","/">>
K_ns == <<"n","s">>

Required == {"OPENAI_API_KEY", "PINECONE_API_KEY", "PINECONE_HOST", "BUBBLE_SECRET_KEY"}

FullEnv ==
    [OPENAI_API_KEY |-> K_openai, PINECONE_API_KEY |-> K_pinecone,
     PINECONE_HOST |-> K_host, BUBBLE_SECRET_KEY |-> K_secret]

Restrict(f, D) == [k \in D |-> f[k]]

\* an optional key: absent, or present with one of the values
Opt(k, values) == {EmptyObj} \cup {(k :> v) : v \in values}

\* process.env with at most MaxAbsent of the required values absent
Envs ==
    { Restrict(FullEnv, Required \ absent) @@ ns @@ hy :
        absent \in {A \in SUBSET Required : Cardinality(A) <= MaxAbsent},
        ns \in Opt("PINECONE_NAMESPACE", {K_ns}),
        hy \in Opt("ENABLE_HYBRID", {S_true, <<"1">>}) }

\* the present day: 2024-03-01, preceded by a leap day
Nows == {19783}

Search(headers, query) == [path |-> "/search", headers |-> headers, query |-> query]

HeaderOpts == Opt("authorization", {S_Bearer \o K_secret, S_Bearer \o K_other})

S_edu == <<"e","d","u">>

\* days=200000000 reaches before the first representable Date
S_hugeDays == <<"2","0","0","0","0","0","0","0","0">>

DaysOpts(vr) ==
    Opt("days", {<<"1">>} \cup (IF vr = "multi" THEN {} ELSE {S_hugeDays}))

\* one content-type selector of the revision's own convention
TypeOpts(vr) == Opt("type", {IF vr \in {"basic", "token"} THEN S_podcast ELSE S_EssaysOnly})

Queries(vr) ==
    { q @@ k @@ ty @@ d @@ a @@ x :
        q \in Opt("q", {<<" ">>, S_edu}),
        k \in Opt("topK", {<<"-","5">>}),
        ty \in TypeOpts(vr),
        d \in DaysOpts(vr),
        a \in Opt("alpha", {<<"0",".","5">>}),
        x \in Opt("exact", {<<" ">>, <<"k","w">>}) }

Requests(vr) ==
    { Search(h, qy) : h \in HeaderOpts, qy \in Queries(vr) }
    \cup { [path |-> "/healthz", headers |-> h, query |-> EmptyObj] : h \in HeaderOpts }

Reject == [kind |-> "reject"]
Http(ok, status, json) == [kind |-> "http", ok |-> ok, status |-> status, json |-> json]
Failures == {Reject, Http(FALSE, "500", [error |-> "upstream"])}

Array(xs) == [t |-> "array", v |-> xs]

DenseVectors == {Array(<<Num(10), Num(-20)>>)}

DenseAnswers ==
    Failures
    \cup { Http(TRUE, "200", [data |-> <<[embedding |-> v]>>]) : v \in DenseVectors }
    \cup { Http(TRUE, "200", EmptyObj), Http(TRUE, "200", [data |-> <<EmptyObj>>]) }

SparseValues ==
    { null,
      [t |-> "object", indices |-> <<>>, values |-> <<>>],
      [t |-> "object", indices |-> <<7>>, values |-> <<Num(5)>>] }

SparseAnswers ==
    Failures
    \cup { Http(TRUE, "200", [data |-> <<[sparse_values |-> sv]>>]) : sv \in SparseValues }
    \cup { Http(TRUE, "200", EmptyObj), Http(TRUE, "200", [data |-> <<EmptyObj>>]) }

Matches ==
    { <<>>,
      << [id |-> "a", score |-> "0.9",
          metadata |-> [Title |-> "T", Snippet |-> "S", title |-> "old", id |-> "raw"]] >>,
      << [id |-> "b", score |-> "0.5"] >>,
      << [id |-> "c", score |-> "0.7",
          metadata |-> [Title |-> "T", Snippet |-> "S", Author |-> "W"] @@ ("AI Summary" :> "A")] >> }

QueryAnswers ==
    Failures
    \cup { Http(TRUE, "200", [matches |-> ms]) : ms \in Matches }
    \cup { Http(TRUE, "200", EmptyObj) }

-----------------------------------------------------------------------------
(* The request pipeline *)

\* res.status(st).json(body): one more response sent, and the handler is over
Send(st, body) ==
    /\ res' = Append(res, [status |-> st, body |-> body])
    /\ pc' = "done"

\* a deliberately wrong reading of the code: the catch block sends nothing
Catch_silent(e) == pc' = "done" /\ res' = res

\* catch (e) { res.status(500).json({ error: String(e) }) }
Catch(e) == Send(500, [error |-> e])

\* the log of outbound calls, with the answer the last one has now received
Answered(ans) == [calls EXCEPT ![Len(calls)] = @ @@ [answer |-> ans]]

\* a request arrives; app.use(checkAuth) is installed in every revision but
\* part_000
Receive(R) ==
    /\ pc = "idle"
    /\ \E r \in R : req' = r
    /\ pc' = IF HasAuth(variant) THEN "auth" ELSE "route"
    /\ UNCHANGED <<variant, env, loc, calls, res>>

\* a deliberately wrong reading of the code: any Authorization header is accepted
authVerdict_anyHeader(e, headers) ==
    IF "BUBBLE_SECRET_KEY" \notin DOMAIN e \/ ~Truthy(e["BUBBLE_SECRET_KEY"])
    THEN "config"
    ELSE IF "authorization" \notin DOMAIN headers \/ ~Truthy(headers["authorization"])
    THEN "unauthorized"
    ELSE "next"

\* the verdict of checkAuth on the request's headers
authVerdict(e, headers) ==
    IF "BUBBLE_SECRET_KEY" \notin DOMAIN e \/ ~Truthy(e["BUBBLE_SECRET_KEY"])
    THEN "config"
    ELSE IF \/ "authorization" \notin DOMAIN headers
            \/ ~Truthy(headers["authorization"])
            \/ headers["authorization"] # S_Bearer \o e["BUBBLE_SECRET_KEY"]
    THEN "unauthorized"
    ELSE "next"

\* const checkAuth = (req, res, next) => ...
checkAuth ==
    /\ pc = "auth"
    /\ LET v == authVerdict(env, req.headers)
       IN  IF v = "config" THEN Send(500, [error |-> <<"Server config error">>])
           ELSE IF v = "unauthorized" THEN Send(401, [error |-> <<"Unauthorized">>])
           ELSE pc' = "route" /\ UNCHANGED res
    /\ UNCHANGED <<variant, env, req, loc, calls>>

\* app.get("/healthz", (_req, res) => res.json({ ok: true }))
healthz ==
    /\ pc = "route"
    /\ req.path = "/healthz"
    /\ Send(200, [ok |-> TRUE])
    /\ UNCHANGED <<variant, env, req, loc, calls>>

denseCall(e, q) ==
    [to |-> "dense", authorization |-> S_Bearer \o Tmpl(e, "OPENAI_API_KEY"), input |-> q]

sparseCall(e, text) ==
    [to |-> "sparse", apiKey |-> Tmpl(e, "PINECONE_API_KEY"), input |-> text]

indexCall(e, body) ==
    [to |-> "index", url |-> trimHost(e) \o <<"/","q","u","e","r","y">>,
     apiKey |-> Tmpl(e, "PINECONE_API_KEY"), body |-> body]

\* app.get("/search"), up to the first await: the parameters are read, a
\* missing q is answered 400, and the dense embedding is requested.
\* part_000 builds its filter here, before the embedding.
search ==
    /\ pc = "route"
    /\ req.path = "/search"
    /\ LET q == qOf(req.query)
           l == [q |-> q, alpha |-> alphaOf(req.query),
                 exactPhrase |-> exactPhraseOf(req.query),
                 topK |-> topKOf(variant, req.query)]
       IN  IF ~Truthy(q)
           THEN /\ Send(400, [error |-> <<"Missing q">>])
                /\ loc' = l
                /\ UNCHANGED calls
           ELSE \E now \in Nows :
                IF variant = "basic" /\ dateThrows(variant, req.query, now)
                THEN /\ Catch(<<"RangeError: Invalid time value">>)
                     /\ loc' = l
                     /\ UNCHANGED calls
                ELSE /\ loc' = IF variant = "basic"
                               THEN l @@ [filter |-> filterOf(variant, req.query, now, now)]
                               ELSE l
                     /\ calls' = Append(calls, denseCall(env, q))
                     /\ pc' = "dense"
                     /\ UNCHANGED res
    /\ UNCHANGED <<variant, env, req>>

\* steps 4 and 5 of the handler, with the locals l: the filter and the body
\* are built and the index is queried.  fetch rejects a URL that is not
\* absolute (no PINECONE_HOST) without sending anything.
fetchQuery(l, b, log) ==
    IF b.threw
    THEN Catch(b.error) /\ loc' = l /\ calls' = log
    ELSE IF trimHost(env) = <<>>
    THEN Catch(<<"TypeError: Invalid URL">>)
         /\ loc' = l @@ [body |-> b.value] /\ calls' = log
    ELSE /\ calls' = Append(log, indexCall(env, b.value))
         /\ loc' = l @@ [body |-> b.value]
         /\ pc' = "query"
         /\ UNCHANGED res

queryPinecone(l, log) ==
    \E now1 \in Nows : \E now2 \in {now1, now1 + 1} :
        IF HasAuth(variant) /\ dateThrows(variant, req.query, now1)
        THEN Catch(<<"RangeError: Invalid time value">>) /\ loc' = l /\ calls' = log
        ELSE fetchQuery(l, bodyOf(variant, env, l,
                                  IF variant = "basic" THEN l.filter
                                  ELSE filterOf(variant, req.query, now1, now2)), log)

\* the dense embedding call returns: const denseVector = await ...; then the
\* sparse embedding is requested, or the index is queried
denseReturn ==
    /\ pc = "dense"
    /\ \E ans \in DenseAnswers :
        LET r == getDenseEmbedding(variant, ans)
        IN  IF r.threw
            THEN Catch(r.error) /\ calls' = Answered(ans) /\ UNCHANGED loc
            ELSE LET l == loc @@ [denseVector |-> r.value]
                 IN  IF wantsSparse(variant, env, loc.exactPhrase)
                     THEN /\ calls' = Append(Answered(ans), sparseCall(env, loc.exactPhrase))
                          /\ loc' = l
                          /\ pc' = "sparse"
                          /\ UNCHANGED res
                     ELSE queryPinecone(l @@ [sparseVector |-> null], Answered(ans))
    /\ UNCHANGED <<variant, env, req>>

\* the sparse embedding call returns: sparseVector = await ...
sparseReturn ==
    /\ pc = "sparse"
    /\ \E ans \in SparseAnswers :
        LET r == getSparseEmbedding(ans)
        IN  IF r.threw
            THEN Catch(r.error) /\ calls' = Answered(ans) /\ UNCHANGED loc
            ELSE queryPinecone(loc @@ [sparseVector |-> r.value], Answered(ans))
    /\ UNCHANGED <<variant, env, req>>

\* the index answers: const j = await r.json(); if (!r.ok) return 500;
\* res.json(items)
queryReturn ==
    /\ pc = "query"
    /\ \E ans \in QueryAnswers :
        /\ calls' = Answered(ans)
        /\ IF ans.kind = "reject" THEN Catch(<<"FetchError">>)
           ELSE IF ~ans.ok
           THEN Send(500, [error |-> <<(IF variant = "basic" THEN "Pinecone" ELSE "Pinecone Error")>>,
                           detail |-> ans.json])
           ELSE LET items == mapMatches(variant, Coalesce(ans.json, "matches", <<>>))
                IN  IF items.threw THEN Catch(items.error)
                    ELSE Send(200, [items |-> items.value])
    /\ UNCHANGED <<variant, env, req, loc>>

\* the request is over; the next one starts from nothing
nextRequest ==
    /\ pc = "done"
    /\ pc' = "idle"
    /\ req' = EmptyObj
    /\ loc' = EmptyObj
    /\ calls' = <<>>
    /\ res' = <<>>
    /\ UNCHANGED <<variant, env>>

InitWith(V, E) ==
    /\ variant \in V
    /\ env \in E
    /\ pc = "idle"
    /\ req = EmptyObj
    /\ loc = EmptyObj
    /\ calls = <<>>
    /\ res = <<>>

Serve ==
    \/ checkAuth
    \/ healthz
    \/ search
    \/ denseReturn
    \/ sparseReturn
    \/ queryReturn
    \/ nextRequest

Init == InitWith(Variants, Envs)

\* the token-mode specification: the two token-mode revisions, fully
\* configured with the hybrid toggle on, and every type parameter of up to
\* MaxTokens tokens
TypeWords ==
    { [text |-> S_essay, means |-> "essay"],
      [text |-> S_podcast, means |-> "podcast"],
      [text |-> S_video, means |-> "video"],
      [text |-> S_all, means |-> "all"],
      [text |-> S_essays, means |-> "essays"],
      [text |-> <<"V","i","d","e","o","s">>, means |-> "videos"],
      [text |-> <<"P","o","d","c","a","s","t">>, means |-> "podcast"],
      [text |-> <<"x">>, means |-> "other"] }

TypeSeps == { <<",">>, <<" ","/"," ">> }

RECURSIVE TypeLists(_)
TypeLists(n) ==
    IF n = 0 THEN {[raw |-> <<>>, toks |-> <<>>]}
    ELSE IF n = 1 THEN {[raw |-> w.text, toks |-> <<w.means>>] : w \in TypeWords}
    ELSE { [raw |-> p.raw \o sep \o w.text, toks |-> Append(p.toks, w.means)] :
             p \in TypeLists(n - 1), sep \in TypeSeps, w \in TypeWords }

TypeInputs == UNION {TypeLists(n) : n \in 0..MaxTokens}

HybridEnv == FullEnv @@ ("ENABLE_HYBRID" :> S_true)

GoodHeader == ("authorization" :> S_Bearer \o K_secret)

TypeRequests ==
    { Search(GoodHeader, [q |-> S_edu, exact |-> <<"k","w">>, type |-> i.raw]) : i \in TypeInputs }
    \cup { Search(GoodHeader, [q |-> S_edu]),
           [path |-> "/healthz", headers |-> GoodHeader, query |-> EmptyObj] }

InitType == InitWith({"basic", "token"}, {HybridEnv})

NextType == Receive(TypeRequests) \/ Serve

SpecType == InitType /\ [][NextType]_vars

\* the closed-label specification: the two closed-label revisions, fully
\* configured, and type parameters around the three facet labels
LabelTexts ==
    { S_AllContentTypes, S_EssaysOnly, S_PodcastsVideosOnly,
      <<" ">> \o S_EssaysOnly \o <<" ">>,
      <<" ">> \o S_PodcastsVideosOnly,
      toLowerCase(S_EssaysOnly),
      S_essay }

LabelRequests ==
    { Search(GoodHeader, [q |-> S_edu] @@ ty @@ d @@ x) :
        ty \in Opt("type", LabelTexts),
        d \in Opt("days", {<<"1">>}),
        x \in Opt("exact", {<<"k","w">>}) }
    \cup { [path |-> "/healthz", headers |-> GoodHeader, query |-> EmptyObj] }

InitLabel == InitWith({"closed", "multi"}, {HybridEnv})

NextLabel == Receive(LabelRequests) \/ Serve

SpecLabel == InitLabel /\ [][NextLabel]_vars

Next == Receive(Requests(variant)) \/ Serve

\* the fair specification: three configurations of every revision, the
\* requests that take each way out of the pipeline, and every step that can
\* run does run (the event loop runs each ready callback, and each outbound
\* call returns or fails)
LiveEnvs ==
    { HybridEnv,
      Restrict(HybridEnv, DOMAIN HybridEnv \ {"BUBBLE_SECRET_KEY"}),
      Restrict(HybridEnv, DOMAIN HybridEnv \ {"PINECONE_HOST"}) }

LiveRequests(vr) ==
    { Search(h, q @@ d @@ x) :
        h \in HeaderOpts,
        q \in Opt("q", {<<" ">>, S_edu}),
        d \in Opt("days", IF vr = "multi" THEN {} ELSE {S_hugeDays}),
        x \in Opt("exact", {<<"k","w">>}) }
    \cup { [path |-> "/healthz", headers |-> h, query |-> EmptyObj] : h \in HeaderOpts }

InitLive == InitWith(Variants, LiveEnvs)

NextLive == Receive(LiveRequests(variant)) \/ Serve

SpecLive == InitLive /\ [][NextLive]_vars /\ WF_vars(Serve)

Spec == Init /\ [][Next]_vars

-----------------------------------------------------------------------------
(* What the properties speak of, stated on the request and the call log     *)
(* and not through the operators of the handler                             *)

InFlight == pc # "idle"

IsSearch == InFlight /\ req.path = "/search"

Blank(str) == \A i \in DOMAIN str : IsWS(str[i])

\* q is missing, or empty after trimming
BlankQ == "q" \notin DOMAIN req.query \/ Blank(req.query["q"])

\* exact is present and not empty after trimming
ExactGiven == "exact" \in DOMAIN req.query /\ ~Blank(req.query["exact"])

\* the hybrid feature toggle is enabled
ToggleOn == "ENABLE_HYBRID" \in DOMAIN env /\ env["ENABLE_HYBRID"] = S_true

\* an inbound credential is configured, in a revision that knows one
CredentialConfigured ==
    HasAuth(variant) /\ "BUBBLE_SECRET_KEY" \in DOMAIN env /\ env["BUBBLE_SECRET_KEY"] # <<>>

\* the Authorization header is absent or differs from "Bearer <credential>"
BadHeader ==
    \/ "authorization" \notin DOMAIN req.headers
    \/ req.headers["authorization"] # S_Bearer \o env["BUBBLE_SECRET_KEY"]

\* the request passed authentication where it is required
Authenticated == ~HasAuth(variant) \/ (CredentialConfigured /\ ~BadHeader)

CallsTo(to) == {i \in DOMAIN calls : calls[i].to = to}
DenseCalls == Cardinality(CallsTo("dense"))
SparseCalls == Cardinality(CallsTo("sparse"))
IndexCalls == Cardinality(CallsTo("index"))

HasAnswer(i) == "answer" \in DOMAIN calls[i]

\* call i came back non-2xx or as a thrown error
FailedCall(i) ==
    HasAnswer(i) /\ (calls[i].answer.kind = "reject" \/ ~calls[i].answer.ok)

\* call i came back 2xx with a first datum
SucceededCall(i) ==
    /\ HasAnswer(i)
    /\ calls[i].answer.kind = "http"
    /\ calls[i].answer.ok
    /\ "data" \in DOMAIN calls[i].answer.json
    /\ calls[i].answer.json.data # <<>>

MissingQResponse == [status |-> 400, body |-> [error |-> <<"Missing q">>]]

\* the provider-specific ceiling of topK
MaxTopK == IF variant = "basic" THEN 50 ELSE 100

\* the index query payload has been built
HasBody == "body" \in DOMAIN loc

-----------------------------------------------------------------------------
(* C1 *)

\* C1 (as stated): every finished GET /search whose q is missing or empty
\* after trimming was answered 400 {error: "Missing q"}, with no outbound call.
C1_MissingQAlways400 ==
    (pc = "done" /\ IsSearch /\ BlankQ) => (res = <<MissingQResponse>> /\ calls = <<>>)

\* C1 (amended): a GET /search whose q is missing or empty after trimming
\* makes no outbound call, and it is answered 400 {error: "Missing q"} when
\* it has passed the auth middleware where one is installed (the middleware
\* answers first otherwise).
C1_MissingQ ==
    (IsSearch /\ BlankQ) =>
        /\ calls = <<>>
        /\ pc \in {"auth", "route", "done"}
        /\ (pc = "done" /\ Authenticated) => res = <<MissingQResponse>>

\* a whitespace-only q, behind the middleware, answered 400
C1_Witness ==
    /\ pc = "done" /\ IsSearch /\ HasAuth(variant)
    /\ "q" \in DOMAIN req.query /\ req.query["q"] # <<>> /\ BlankQ
    /\ res = <<MissingQResponse>>

-----------------------------------------------------------------------------
(* C2 *)

\* C2: when an inbound credential is configured, a request whose
\* Authorization header is absent or differs from "Bearer <credential>" never
\* gets past the middleware: it is answered 401 and no outbound call is made,
\* whatever its path and parameters.
C2_Unauthorized ==
    (InFlight /\ CredentialConfigured /\ BadHeader) =>
        /\ calls = <<>>
        /\ pc \in {"auth", "done"}
        /\ pc = "done" => (Len(res) = 1 /\ res[1].status = 401)

\* a well-formed search carrying the wrong credential, answered 401
C2_Witness ==
    /\ pc = "done" /\ IsSearch /\ ~BlankQ /\ CredentialConfigured
    /\ "authorization" \in DOMAIN req.headers /\ BadHeader
    /\ res[1].status = 401

-----------------------------------------------------------------------------
(* C3 *)

\* C3: every finished GET /healthz was answered 200 {ok: true}, with or
\* without an Authorization header and with or without a configured
\* credential.
C3_HealthzUnconditional ==
    (pc = "done" /\ req.path = "/healthz") => res = <<[status |-> 200, body |-> [ok |-> TRUE]]>>

-----------------------------------------------------------------------------
(* C4 *)

\* C4: the topK of every index query payload is an integer in [1, MAX], and
\* it is the default 10 when the parameter is absent or negative.
C4_TopKClamped ==
    HasBody =>
        /\ ~loc.body.topK.nan
        /\ 1 <= loc.body.topK.v /\ loc.body.topK.v <= MaxTopK
        /\ ("topK" \notin DOMAIN req.query \/ Head(req.query["topK"]) = "-")
              => loc.body.topK.v = 10

-----------------------------------------------------------------------------
(* C5 *)

\* C5: every finished GET /search with q non-empty after trimming, past
\* authentication where it is required, made exactly one dense-embedding
\* call; no request ever makes more than one.
C5_DenseExactlyOnce ==
    /\ InFlight => DenseCalls <= 1
    /\ (pc = "done" /\ IsSearch /\ ~BlankQ /\ Authenticated) => DenseCalls = 1

-----------------------------------------------------------------------------
(* C6 *)

\* C6 (as stated): a finished search that reached the embedding step called
\* the sparse-embedding provider if and only if the toggle is enabled and
\* exact is non-empty after trimming.
C6_SparseIffToggleAndExact ==
    (pc = "done" /\ HasAuth(variant) /\ DenseCalls >= 1) =>
        (SparseCalls >= 1 <=> (ToggleOn /\ ExactGiven))

\* C6 (amended): once the dense-embedding call of a search has returned, the
\* sparse-embedding provider has been called (once) if and only if the
\* toggle is enabled, exact is non-empty after trimming and the dense call
\* succeeded; a failed dense call ends the request before any sparse call.
\* The revision without the hybrid feature never calls it.
C6_SparseIff ==
    /\ InFlight => SparseCalls <= 1
    /\ ~HasAuth(variant) => SparseCalls = 0
    /\ (HasAuth(variant) /\ DenseCalls >= 1 /\ HasAnswer(1)) =>
          (SparseCalls = 1 <=> (ToggleOn /\ ExactGiven /\ SucceededCall(1)))

\* a search with the toggle on and an exact phrase, whose sparse call was made
C6_Witness ==
    /\ pc = "done" /\ ToggleOn /\ ExactGiven /\ SparseCalls = 1 /\ IndexCalls = 1

-----------------------------------------------------------------------------
(* C7 *)

\* the sparse vector the provider produced carries data
SparseProduced == loc.sparseVector.t = "object" /\ loc.sparseVector.values # <<>>

\* C7: in every index query payload the sparse field is attached if and only
\* if a sparse vector with data was produced; the dense vector is scaled by
\* alpha exactly when the field is attached and is sent unscaled otherwise.
C7_SparseFieldHasData ==
    (HasBody /\ HasAuth(variant)) =>
        /\ "sparse_vector" \in DOMAIN loc.body <=> SparseProduced
        /\ "sparse_vector" \in DOMAIN loc.body =>
              loc.body.vector.v =
                  [i \in DOMAIN loc.denseVector.v |-> Times(loc.denseVector.v[i], loc.alpha)]
        /\ ("sparse_vector" \notin DOMAIN loc.body /\ "vector" \in DOMAIN loc.body) =>
              loc.body.vector = loc.denseVector

-----------------------------------------------------------------------------
(* C8 *)

SparseFailed == \E i \in CallsTo("sparse") : FailedCall(i)

\* C8: when the sparse-embedding call of a request has failed (non-2xx or a
\* thrown error), the request is over with a single 500 response that
\* carries no item list, no index query was issued, and neither embedding
\* call was repeated.
C8_SparseFailureIsTerminal ==
    SparseFailed =>
        /\ pc = "done"
        /\ Len(res) = 1 /\ res[1].status = 500 /\ "items" \notin DOMAIN res[1].body
        /\ IndexCalls = 0 /\ SparseCalls = 1 /\ DenseCalls = 1

\* a sparse call answered non-2xx
C8_Witness ==
    /\ pc = "done"
    /\ \E i \in CallsTo("sparse") : FailedCall(i) /\ calls[i].answer.kind = "http"

-----------------------------------------------------------------------------
(* C9 *)

\* the required configuration values of the deployed revision
RequiredOf(vr) == IF HasAuth(vr) THEN Required ELSE Required \ {"BUBBLE_SECRET_KEY"}

ConfigAbsent == \E k \in RequiredOf(variant) : k \notin DOMAIN env

\* C9: with a required credential or configuration value absent, a request
\* makes no outbound call and is answered 500.
C9_ConfigAbsentNoCalls ==
    (InFlight /\ ConfigAbsent) =>
        /\ calls = <<>>
        /\ pc = "done" => (Len(res) = 1 /\ res[1].status = 500)

-----------------------------------------------------------------------------
(* C10 *)

\* the token list a type parameter of the token-mode specification spells
TypeMeaning ==
    [r \in {i.raw : i \in TypeInputs} |-> (CHOOSE i \in TypeInputs : i.raw = r).toks]

\* the mapping as the claim gives it
StatedLabels(tok) ==
    IF tok = "essay" THEN {"Essay"}
    ELSE IF tok = "podcast" THEN {"Podcast", "Podcast, Video"}
    ELSE IF tok = "video" THEN {"Video", "Podcast, Video"}
    ELSE {}

\* the mapping with the plural spellings, which part_001 also accepts
PluralLabels(vr, tok) ==
    IF vr = "basic" THEN StatedLabels(tok)
    ELSE IF tok = "essays" THEN StatedLabels("essay")
    ELSE IF tok = "podcasts" THEN StatedLabels("podcast")
    ELSE IF tok = "videos" THEN StatedLabels("video")
    ELSE StatedLabels(tok)

TypeField == IF variant = "basic" THEN "final_type" ELSE "Type"

\* the content-type predicate of the payload is `$in` exactly the set S, and
\* there is none when S is empty
TypePredicateIs(S) ==
    LET f == IF "filter" \in DOMAIN loc.body THEN loc.body.filter ELSE EmptyObj
    IN  IF S = {} THEN TypeField \notin DOMAIN f
        ELSE /\ TypeField \in DOMAIN f
             /\ f[TypeField].op = "$in"
             /\ Range(f[TypeField].vals) = S
             /\ Len(f[TypeField].vals) = Cardinality(S)

TokenMode == variant \in {"basic", "token"} /\ HasBody

\* the tokens of the request's type parameter
TypeToks == IF "type" \in DOMAIN req.query THEN TypeMeaning[req.query["type"]] ELSE <<>>

\* C10 (as stated): in token mode the content-type predicate is `$in`
\* exactly the union of the labels of essay, podcast and video among the
\* tokens, and there is none with an `all` token or no such token.
C10_TokenLabelsStated ==
    TokenMode =>
        LET toks == Range(TypeToks)
        IN  TypePredicateIs(IF "all" \in toks THEN {}
                            ELSE UNION {StatedLabels(t) : t \in toks})

\* C10 (amended): the same, with the tokens essays, podcasts and videos
\* mapped like essay, podcast and video in the revision part_001 (part_000
\* knows the singular tokens only).
C10_TokenLabels ==
    TokenMode =>
        LET toks == Range(TypeToks)
        IN  TypePredicateIs(IF "all" \in toks THEN {}
                            ELSE UNION {PluralLabels(variant, t) : t \in toks})

\* two tokens, one of them podcast: the combined label is among the values
C10_Witness ==
    /\ TokenMode /\ pc = "query"
    /\ Len(TypeToks) = 2
    /\ "essay" \in Range(TypeToks)
    /\ "podcast" \in Range(TypeToks)
    /\ TypePredicateIs({"Essay", "Podcast", "Podcast, Video"})

-----------------------------------------------------------------------------
(* C11 *)

\* the UTC days the clock can show while a request is handled: the day it
\* arrives, and the next when midnight passes meanwhile
ClockDays == Nows \cup {n + 1 : n \in Nows}

\* the number a days parameter spells
DaysMeaning == (<<"1">> :> 1) @@ (S_hugeDays :> 200000000)

\* the calendar, written out: YYYY-MM-DD of the days around 2024-03-01
IsoOf ==
    (19782 :> <<"2","0","2","4","-","0","2","-","2","9">>)
    @@ (19783 :> <<"2","0","2","4","-","0","3","-","0","1">>)
    @@ (19784 :> <<"2","0","2","4","-","0","3","-","0","2">>)

\* the calendar, written out: the five literal spellings of each day
\* (YYYY-MM-DD, MM/DD/YYYY, M/D/YYYY, M/DD/YYYY, MM/D/YYYY)
SpellingsOf ==
    (19782 :> {<<"2","0","2","4","-","0","2","-","2","9">>,
              <<"0","2","/","2","9","/","2","0","2","4">>,
              <<"2","/","2","9","/","2","0","2","4">>,
              <<"2","/","2","9","/","2","0","2","4">>,
              <<"0","2","/","2","9","/","2","0","2","4">>})
    @@ (19783 :> {<<"2","0","2","4","-","0","3","-","0","1">>,
              <<"0","3","/","0","1","/","2","0","2","4">>,
              <<"3","/","1","/","2","0","2","4">>,
              <<"3","/","0","1","/","2","0","2","4">>,
              <<"0","3","/","1","/","2","0","2","4">>})
    @@ (19784 :> {<<"2","0","2","4","-","0","3","-","0","2">>,
              <<"0","3","/","0","2","/","2","0","2","4">>,
              <<"3","/","2","/","2","0","2","4">>,
              <<"3","/","0","2","/","2","0","2","4">>,
              <<"0","3","/","2","/","2","0","2","4">>})

\* every supported spelling of day d in the deployed revision
DayFormats(d) == IF variant = "multi" THEN SpellingsOf[d] ELSE {IsoOf[d]}

\* the payload's recency predicate is the window of n + 1 days ending today
WindowIs(today, n) ==
    LET f == IF "filter" \in DOMAIN loc.body THEN loc.body.filter ELSE EmptyObj
    IN  IF variant = "basic"
        THEN /\ "date_of_publication" \in DOMAIN f
             /\ f["date_of_publication"] = [op |-> "$gte", val |-> IsoOf[today - n]]
        ELSE /\ "Date of Publication" \in DOMAIN f
             /\ f["Date of Publication"].op = "$in"
             /\ Range(f["Date of Publication"].vals)
                    = UNION {DayFormats(d) : d \in (today - n)..today}

DaysGiven == HasBody /\ "days" \in DOMAIN req.query /\ DaysMeaning[req.query["days"]] > 0

\* C11: for days=N with N > 0 the recency window of the payload covers
\* exactly the N+1 consecutive UTC days from (today - N) to today: the cutoff
\* of `$gte` is (today - N), and the `$in` set is exactly every supported
\* spelling of every day of the window.
C11_WindowExact ==
    DaysGiven =>
        \E today \in ClockDays :
            /\ today - DaysMeaning[req.query["days"]] \in DOMAIN IsoOf
            /\ WindowIs(today, DaysMeaning[req.query["days"]])

-----------------------------------------------------------------------------
(* C12 *)

ContentWords == {"Essay", "Podcast", "Video"}

\* every ordering of every subset of the content words
Arrangements ==
    { a \in UNION {[1..n -> ContentWords] : n \in 1..3} :
        \A i, j \in DOMAIN a : a[i] = a[j] => i = j }

\* the words of an arrangement joined by ", "
RECURSIVE Joined(_)
Joined(a) == IF Len(a) = 1 THEN a[1] ELSE a[1] \o ", " \o Joined(Tail(a))

\* every label that names Essay, alone or with other types in any order
LabelsWithEssay == {Joined(a) : a \in {b \in Arrangements : "Essay" \in Range(b)}}

\* the facet label a type parameter of the closed-label specification spells
FacetOf(raw) ==
    IF raw \in {S_EssaysOnly, <<" ">> \o S_EssaysOnly \o <<" ">>} THEN "Essays Only"
    ELSE IF raw \in {S_PodcastsVideosOnly, <<" ">> \o S_PodcastsVideosOnly}
    THEN "Podcasts/Videos Only"
    ELSE IF raw = S_AllContentTypes THEN "All Content Types"
    ELSE "none"

\* a payload of a closed-label revision was built for the facet label
FacetPayload(facet) ==
    /\ variant \in {"closed", "multi"}
    /\ HasBody
    /\ "type" \in DOMAIN req.query
    /\ FacetOf(req.query["type"]) = facet

\* the Type predicate of the payload
TypePredicate == loc.body.filter["Type"]

HasTypePredicate == "filter" \in DOMAIN loc.body /\ "Type" \in DOMAIN loc.body.filter

\* C12: in closed-label mode, type = "Essays Only" gives the predicate
\* Type $in S with S exactly the 11 labels that are an ordering of a subset
\* of {Essay, Podcast, Video} containing Essay, joined by ", ".
C12_EssaysOnlyLabels ==
    FacetPayload("Essays Only") =>
        /\ HasTypePredicate
        /\ TypePredicate.op = "$in"
        /\ Range(TypePredicate.vals) = LabelsWithEssay
        /\ Cardinality(LabelsWithEssay) = 11
        /\ Len(TypePredicate.vals) = 11

\* an "Essays Only" payload that admits "Video, Podcast, Essay"
C12_Witness ==
    /\ FacetPayload("Essays Only") /\ pc = "query"
    /\ HasTypePredicate
    /\ "Video, Podcast, Essay" \in Range(TypePredicate.vals)

-----------------------------------------------------------------------------
(* C13 *)

\* the index's reading of a predicate on a label
Satisfies(label, pred) ==
    IF pred.op = "$in" THEN label \in Range(pred.vals) ELSE label \notin Range(pred.vals)

\* the labels naming Essay together with another type
MultiLabelsWithEssay == LabelsWithEssay \ {"Essay"}

\* the predicate the deployed revision builds for "Essays Only"
EssaysOnlyPredicate == typeFilter(variant, [type |-> S_EssaysOnly])["Type"]

\* C13: in closed-label mode, type = "Podcasts/Videos Only" gives the
\* predicate Type $nin {Essay, Essays}; every multi-type label containing
\* Essay satisfies it and satisfies the "Essays Only" predicate too, so the
\* two predicates are not complements.
C13_PodcastsVideosOnly ==
    FacetPayload("Podcasts/Videos Only") =>
        /\ HasTypePredicate
        /\ TypePredicate.op = "$nin"
        /\ Range(TypePredicate.vals) = {"Essay", "Essays"}
        /\ \A label \in MultiLabelsWithEssay :
              Satisfies(label, TypePredicate) /\ Satisfies(label, EssaysOnlyPredicate)
        /\ ~Satisfies("Essay", TypePredicate)
        /\ Satisfies("Podcast", TypePredicate) /\ ~Satisfies("Podcast", EssaysOnlyPredicate)

\* a "Podcasts/Videos Only" payload sent to the index
C13_Witness ==
    /\ FacetPayload("Podcasts/Videos Only") /\ pc = "query"
    /\ HasTypePredicate
    /\ Satisfies("Essay, Podcast", TypePredicate)

-----------------------------------------------------------------------------
(* C14 *)

\* the output names and the raw metadata fields they are computed from
Aliases ==
    { <<"title", "Title">>, <<"author", "Author">>, <<"url", "URL">>,
      <<"publication", "Publication">>, <<"type", "Type">>,
      <<"date", "Date of Publication">>, <<"snippet", "Snippet">>,
      <<"ai_summary", "AI Summary">> }

\* the item carries `name` with the value v
Carries(item, name, v) == name \in DOMAIN item /\ item[name] = v

\* the item an index match must be mapped to
MappedFrom(item, m) ==
    LET md == IF "metadata" \in DOMAIN m THEN m.metadata ELSE EmptyObj
    IN  /\ Carries(item, "id", m.id)
        /\ Carries(item, "score", m.score)
        /\ HasAuth(variant) =>
              /\ \A al \in Aliases : al[2] \in DOMAIN md => Carries(item, al[1], md[al[2]])
              /\ IF "AI Summary" \in DOMAIN md /\ md["AI Summary"] # ""
                 THEN Carries(item, "abstract", md["AI Summary"])
                 ELSE "Snippet" \in DOMAIN md => Carries(item, "abstract", md["Snippet"])

\* the request was answered with an item list
ItemsSent == pc = "done" /\ Len(res) = 1 /\ "items" \in DOMAIN res[1].body

\* the matches of the index answer
MatchesReturned ==
    LET j == calls[Len(calls)].answer.json
    IN  IF "matches" \in DOMAIN j THEN j.matches ELSE <<>>

\* C14: every item of the response has the id and score of its match and
\* each normalized alias computed from the raw metadata field (abstract = AI
\* summary when present and non-empty, else snippet), also when the raw
\* metadata has a key named like an output field.
C14_ResultMapping ==
    ItemsSent =>
        /\ Len(res[1].body.items) = Len(MatchesReturned)
        /\ \A i \in DOMAIN MatchesReturned :
              MappedFrom(res[1].body.items[i], MatchesReturned[i])

-----------------------------------------------------------------------------
(* C15 *)

\* call i came back 2xx
ReturnedOk(i) == HasAnswer(i) /\ calls[i].answer.kind = "http" /\ calls[i].answer.ok

\* C15: within one request each provider is called at most once, in the
\* order dense, sparse, index; the index query is the last call and every
\* call before it has returned 2xx; a call that failed (non-2xx or a thrown
\* error) is the last call of its request.
C15_CallOrder ==
    /\ DenseCalls <= 1 /\ SparseCalls <= 1 /\ IndexCalls <= 1
    /\ \A i \in DOMAIN calls :
          /\ calls[i].to = "dense" => i = 1
          /\ calls[i].to = "sparse" => (i = 2 /\ calls[1].to = "dense")
          /\ calls[i].to = "index" =>
                /\ i = Len(calls)
                /\ i > 1 /\ calls[1].to = "dense"
                /\ \A j \in 1..(i - 1) : ReturnedOk(j)
          /\ FailedCall(i) => i = Len(calls)
          /\ i < Len(calls) => ReturnedOk(i)

\* the index query issued after both embedding calls returned
C15_Witness ==
    /\ pc = "query" /\ Len(calls) = 3
    /\ calls[1].to = "dense" /\ calls[2].to = "sparse" /\ calls[3].to = "index"
    /\ ReturnedOk(1) /\ ReturnedOk(2)

-----------------------------------------------------------------------------
(* C16 *)

ResponseStatuses == {200, 400, 401, 500}

\* never two responses, and a finished request has exactly one, with one of
\* the four statuses
OneResponse ==
    /\ Len(res) <= 1
    /\ pc = "done" => (Len(res) = 1 /\ res[1].status \in ResponseStatuses)
    /\ (InFlight /\ pc # "done") => res = <<>>

\* C16: every request to /search receives exactly one response, with status
\* 200, 400, 401 or 500: no path sends two and, each outbound call returning
\* or failing, every request ends with its response.
C16_ExactlyOneResponse ==
    /\ []OneResponse
    /\ (IsSearch ~> (pc = "done" /\ Len(res) = 1))

\* a search whose index answer held a match without metadata, answered 500
C16_Witness ==
    /\ pc = "done" /\ IsSearch /\ IndexCalls = 1
    /\ ReturnedOk(Len(calls))
    /\ \E i \in DOMAIN MatchesReturned : "metadata" \notin DOMAIN MatchesReturned[i]
    /\ res[1].status = 500

====
